---- MODULE Spec2Model ----
(***************************************************************************)
(* Capsule medication tracker: the history store (database/db_manager.py), *)
(* the missed-dose predictor (ml_module/predictor.py), the adherence       *)
(* analyzer (ml_module/analyzer.py) and the request handlers of app.py.    *)
(*                                                                         *)
(* Time strings.  The program keeps every timestamp as a string.  It       *)
(* parses them with strptime('%Y-%m-%d %H:%M') but sorts and filters them  *)
(* as strings (ORDER BY, >= in SQL, sorted(key=...)).  A time string is    *)
(* modelled as a record [key, val]: key is its rank in lexicographic       *)
(* order and val the minute strptime returns, or NoParse when strptime     *)
(* raises ValueError.  A zero-padded string of minute m has key 2*m, val   *)
(* m; other strings have an odd key.                                       *)
(*                                                                         *)
(* Probabilities are integers in units of 1/10000, adherence rates in      *)
(* units of 1/100 of a percent.                                            *)
(***************************************************************************)
EXTENDS Integers, Sequences, FiniteSets, TLC

VARIABLES
    medications,    \* rows of table medications: [id, name, dosage]
    nextMedId,      \* AUTOINCREMENT counter of medications
    schedules,      \* rows of table schedules in rowid order: [medication_id, scheduled_time]
    dose_history,   \* rows of table dose_history in rowid order
    nextDoseId,     \* AUTOINCREMENT counter of dose_history
    model,          \* predictor.model: None or a LogisticRegression
    scaler,         \* predictor.scaler: a StandardScaler
    artifact,       \* contents of the file at config.MODEL_PATH
    trainRuns,      \* number of training runs that reached the scaler fit
    newDoses,       \* number of record_dose calls of this run
    last,           \* the last request handled and what it returned
    workers         \* the processes that share the file at config.MODEL_PATH:
                    \* the predictor of each and its place in load_model / save_model

vars == <<medications, nextMedId, schedules, dose_history, nextDoseId,
          model, scaler, artifact, trainRuns, newDoses, last, workers>>

----------------------------------------------------------------------------
(* Program constants (config.py and literals of the code).                 *)

TRAINING_DATA_MIN_RECORDS == 10
DELAY_TOLERANCE == 60
MISS_PROBABILITY_THRESHOLD == 6000
MEDIUM_THRESHOLD == 3000
PREDICT_MIN_HISTORY == 5
MIN_PAST_HISTORY == 3
PREDICT_DAYS == 30
TRAIN_DAYS == 60
RECENT_DAYS == 7
PATTERN_DAYS == 30
TREND_RECENT_DAYS == 7
TREND_OLDER_DAYS == 30
TREND_POINTS == 1000
MANY_DELAYS == 5
LONG_DELAY == 60
SLOT_MISSES == 3

(* Bounds of the model.                                                    *)
MaxNewDoses == 1      \* record_dose calls per run, on top of the stored history
MaxNewMeds == 1       \* add_medication calls per run
MaxTrainRuns == 2     \* training runs per run that reach the scaler fit

(* The clock: datetime.now() is 12:00 of day Today throughout a run.       *)
Today == 100
DayMinutes == 24 * 60

NoParse == 0 - 1
\* None (or ''), where a time string is expected
NoTime == [key |-> 0 - 1, val |-> NoParse]

----------------------------------------------------------------------------
(* Time strings                                                            *)

\* 'YYYY-MM-DD HH:MM', zero padded, of minute m of day d
Canonical(d, m) == [key |-> 2 * (d * DayMinutes + m), val |-> d * DayMinutes + m]

\* the string of minute off after/before the time string s, as a client computes it
Shift(s, off) == [key |-> s.key + 2 * off, val |-> s.val + off]

\* '2026-11-9 08:00' written on the 10th: strptime accepts it as yesterday
\* 08:00, as a string it is greater than every string of today
Unpadded == [key |-> 2 * (Today * DayMinutes + DayMinutes) + 1,
             val |-> (Today - 1) * DayMinutes + 8 * 60]

\* 'tomorrow morning': strptime raises, as a string it is greater than every date
BadTime == [key |-> 2 * ((Today + 1000) * DayMinutes) + 1, val |-> NoParse]

\* datetime.strptime(s, '%Y-%m-%d %H:%M') succeeds
Parseable(s) == s.val # NoParse

\* (datetime.now() - timedelta(days=days)).strftime('%Y-%m-%d'), as a key
StartDateKey(days) == 2 * ((Today - days) * DayMinutes)

\* datetime.now().strftime('%Y-%m-%d') followed by ' ' and a schedule's time of day
TodayAt(tod) ==
    IF tod.val = NoParse
    THEN [key |-> 2 * (Today * DayMinutes + DayMinutes) - 1, val |-> NoParse]
    ELSE Canonical(Today, tod.val)

----------------------------------------------------------------------------
(* Sequences                                                               *)

Range(s) == {s[i] : i \in 1..Len(s)}

Drop(s, n) == IF n >= Len(s) THEN <<>> ELSE SubSeq(s, n + 1, Len(s))

RECURSIVE CountIf(_, _)
CountIf(s, st) ==
    IF s = <<>> THEN 0
    ELSE (IF Head(s).status = st THEN 1 ELSE 0) + CountIf(Tail(s), st)

\* insert row r into the sequence s, sorted by scheduled_time descending,
\* behind every row whose string is greater or equal (the sort is stable)
RECURSIVE InsertDesc(_, _)
InsertDesc(r, s) ==
    IF s = <<>> THEN <<r>>
    ELSE IF Head(s).scheduled_time.key >= r.scheduled_time.key
         THEN <<Head(s)>> \o InsertDesc(r, Tail(s))
         ELSE <<r>> \o s

\* sorted(s, key=scheduled_time, reverse=True) / ORDER BY scheduled_time DESC
RECURSIVE SortDesc(_)
SortDesc(s) ==
    IF s = <<>> THEN <<>>
    ELSE InsertDesc(s[Len(s)], SortDesc(SubSeq(s, 1, Len(s) - 1)))

----------------------------------------------------------------------------
(* database/db_manager.py                                                  *)

Names == {"Aspirin", "Ibuprofen"}
Dosages == {"100mg"}

\* times of day a schedule row holds: '08:00', '20:00' and 'morning'
T0800 == [key |-> 2 * (8 * 60), val |-> 8 * 60]
T2000 == [key |-> 2 * (20 * 60), val |-> 20 * 60]
BadTod == [key |-> 2 * DayMinutes + 1, val |-> NoParse]

MedIds(meds) == {m.id : m \in meds}

\* the rows of schedule_times, as add_medication and update_medication insert them
ScheduleRows(medication_id, schedule_times) ==
    [i \in 1..Len(schedule_times) |->
        [medication_id |-> medication_id, scheduled_time |-> schedule_times[i]]]

DoseRowDelayedAtTolerance(id, medication_id, scheduled_time, actual_time, status) ==
    LET computed == status = "taken" /\ actual_time # NoTime
                    /\ Parseable(scheduled_time) /\ Parseable(actual_time)
        delay == IF computed THEN actual_time.val - scheduled_time.val ELSE 0
    IN [id |-> id,
        medication_id |-> medication_id,
        scheduled_time |-> scheduled_time,
        actual_time |-> actual_time,
        status |-> IF computed
                   THEN (IF delay >= DELAY_TOLERANCE THEN "delayed" ELSE "taken")
                   ELSE status,
        delay_minutes |-> delay]

\* the row record_dose inserts
DoseRow(id, medication_id, scheduled_time, actual_time, status) ==
    LET computed == status = "taken" /\ actual_time # NoTime
                    /\ Parseable(scheduled_time) /\ Parseable(actual_time)
        delay == IF computed THEN actual_time.val - scheduled_time.val ELSE 0
    IN [id |-> id,
        medication_id |-> medication_id,
        scheduled_time |-> scheduled_time,
        actual_time |-> actual_time,
        status |-> IF computed
                   THEN (IF delay > DELAY_TOLERANCE THEN "delayed" ELSE "taken")
                   ELSE status,
        delay_minutes |-> delay]

\* get_dose_history(days) over the tables meds and doses
DoseHistoryOf(meds, doses, days) ==
    LET InWindow(r) == /\ r.medication_id \in MedIds(meds)
                       /\ r.scheduled_time.key >= StartDateKey(days)
    IN SortDesc(SelectSeq(doses, InWindow))

get_dose_history(days) == DoseHistoryOf(medications, dose_history, days)

\* get_todays_schedule()
get_todays_schedule ==
    LET Joined(r) == r.medication_id \in MedIds(medications)
        rows == SelectSeq(schedules, Joined)
    IN [i \in 1..Len(rows) |->
          [medication_id |-> rows[i].medication_id,
           scheduled_time |-> TodayAt(rows[i].scheduled_time)]]

----------------------------------------------------------------------------
(* ml_module/predictor.py                                                  *)

\* self.model is None
NoModel == [kind |-> "None", run |-> 0]
\* LogisticRegression(...) before and after a successful fit of training run r
UnfittedModel(r) == [kind |-> "unfitted", run |-> r]
FittedModel(r) == [kind |-> "fitted", run |-> r]
\* StandardScaler() as __init__ creates it, and after fit_transform of run r
FreshScaler == [kind |-> "unfitted", run |-> 0]
FittedScaler(r) == [kind |-> "fitted", run |-> r]
\* the file at MODEL_PATH: absent, or the pickled {'model', 'scaler'}
NoArtifact == [present |-> FALSE, model |-> NoModel, scaler |-> FreshScaler]
Pickled(m, s) == [present |-> TRUE, model |-> m, scaler |-> s]

RaisedFeatures == [raised |-> TRUE, hour |-> 0, day_of_week |-> 0,
                   miss_num |-> 0, miss_den |-> 1,
                   delay_sum |-> 0, delay_n |-> 0, streak |-> 0]

\* the streak loop of extract_features over the sorted history
RECURSIVE StreakOf(_)
StreakOf(sorted_history) ==
    IF sorted_history = <<>> THEN 0
    ELSE IF Head(sorted_history).status \in {"taken", "delayed"}
         THEN 1 + StreakOf(Tail(sorted_history))
         ELSE 0

RECURSIVE SumDelays(_)
SumDelays(s) ==
    IF s = <<>> THEN 0 ELSE Head(s).delay_minutes + SumDelays(Tail(s))

\* extract_features(history, target_time) raises ValueError: strptime of
\* target_time, or of the scheduled_time of a row of history, fails
FeaturesRaise(history, target_time) ==
    \/ ~Parseable(target_time)
    \/ \E i \in 1..Len(history) : ~Parseable(history[i].scheduled_time)

\* extract_features(history, target_time); miss_rate is miss_num / miss_den and
\* avg_delay is delay_sum / delay_n (0 when delay_n = 0)
extract_features(history, target_time) ==
    IF FeaturesRaise(history, target_time) THEN RaisedFeatures
    ELSE
      LET Recent(h) == h.scheduled_time.val > target_time.val - RECENT_DAYS * DayMinutes
          recent_history == SelectSeq(history, Recent)
          IsDelayed(h) == h.status = "delayed"
          delays == SelectSeq(recent_history, IsDelayed)
      IN [raised |-> FALSE,
          hour |-> (target_time.val % DayMinutes) \div 60,
          day_of_week |-> (target_time.val \div DayMinutes) % 7,
          miss_num |-> CountIf(recent_history, "missed"),
          miss_den |-> IF recent_history = <<>> THEN 1 ELSE Len(recent_history),
          delay_sum |-> SumDelays(delays),
          delay_n |-> Len(delays),
          streak |-> StreakOf(SortDesc(history))]

\* the positions of history that train_model turns into a training example
ExampleIndexes(history) ==
    {i \in 1..Len(history) : Len(Drop(history, i)) >= MIN_PAST_HISTORY}

\* train_model() from line 94 on: idx are the positions of history that give
\* an example
TrainOn(history, idx, m, s, a, r) ==
    IF \E i \in idx : FeaturesRaise(Drop(history, i), history[i].scheduled_time)
    THEN [ret |-> "raise", model |-> m, scaler |-> s, artifact |-> a,
          fitted |-> FALSE, examples |-> 0]
    ELSE IF Cardinality(idx) < TRAINING_DATA_MIN_RECORDS
    THEN [ret |-> "False", model |-> m, scaler |-> s, artifact |-> a,
          fitted |-> FALSE, examples |-> Cardinality(idx)]
    ELSE IF \/ \A i \in idx : history[i].status = "missed"
            \/ \A i \in idx : history[i].status # "missed"
    THEN \* LogisticRegression.fit raises ValueError: one class only
         [ret |-> "raise", model |-> UnfittedModel(r), scaler |-> FittedScaler(r),
          artifact |-> a, fitted |-> TRUE, examples |-> Cardinality(idx)]
    ELSE [ret |-> "True", model |-> FittedModel(r), scaler |-> FittedScaler(r),
          artifact |-> Pickled(FittedModel(r), FittedScaler(r)),
          fitted |-> TRUE, examples |-> Cardinality(idx)]

TrainOutcomeNoSizeCheck(history, m, s, a, r) ==
    TrainOn(history, ExampleIndexes(history), m, s, a, r)

\* train_model() run on history with the predictor fields m, s and the file a;
\* r is the number of this training run.  ret is "True", "False" or "raise".
TrainOutcome(history, m, s, a, r) ==
    IF Len(history) < TRAINING_DATA_MIN_RECORDS
    THEN [ret |-> "False", model |-> m, scaler |-> s, artifact |-> a,
          fitted |-> FALSE, examples |-> 0]
    ELSE TrainOn(history, ExampleIndexes(history), m, s, a, r)

RiskLevelInclusive(probability) ==
    IF probability >= MISS_PROBABILITY_THRESHOLD THEN "high"
    ELSE IF probability >= MEDIUM_THRESHOLD THEN "medium"
    ELSE "low"

\* the risk level of a probability
RiskLevel(probability) ==
    IF probability > MISS_PROBABILITY_THRESHOLD THEN "high"
    ELSE IF probability > MEDIUM_THRESHOLD THEN "medium"
    ELSE "low"

\* round(probability, 3): to the nearest multiple of 10, ties to the even one
Round3(probability) ==
    LET q == probability \div 10
        rem == probability % 10
    IN IF rem > 5 \/ (rem = 5 /\ q % 2 = 1) THEN 10 * (q + 1) ELSE 10 * q

\* what the classifier may return as the probability of the missed class
ProbSet == {3000, 3004, 6000, 6004}

Unknown(message, n) ==
    [ret |-> "ok", probability |-> 0, raw |-> 0, risk_level |-> "unknown",
     message |-> message, training |-> "none", count |-> n]

\* the payload predict_miss_probability returns when predict_proba returned p
Assessment(p, training, n) ==
    [ret |-> "ok", probability |-> Round3(p), raw |-> p, risk_level |-> RiskLevel(p),
     message |-> "risk", training |-> training, count |-> n]

NotEnoughDataBelow3(history) == Len(history) < PREDICT_MIN_HISTORY - 2

\* the minimum-data check of predict_miss_probability
NotEnoughData(history) == Len(history) < PREDICT_MIN_HISTORY

\* predict_miss_probability from line 138 on: history is the history of the
\* medication and t what the inline train_model() does when it is called
PredictOn(history, scheduled_time, m, s, a, t) ==
    LET same == [model |-> m, scaler |-> s, artifact |-> a, fitted |-> FALSE]
        after == [model |-> t.model, scaler |-> t.scaler, artifact |-> t.artifact,
                  fitted |-> t.fitted]
        stopped(ret) == [ret |-> ret, probability |-> 0, raw |-> 0,
                         risk_level |-> "none", message |-> "none",
                         training |-> t.ret, count |-> Len(history)]
    IN IF NotEnoughData(history)
       THEN [out |-> Unknown("Not enough data to predict", Len(history)), st |-> same]
       ELSE IF t.ret = "False"
       THEN [out |-> [Unknown("Insufficient data to train model", Len(history))
                        EXCEPT !.training = "False"],
             st |-> same]
       ELSE IF t.ret = "raise" THEN [out |-> stopped("raise"), st |-> after]
       ELSE IF FeaturesRaise(history, scheduled_time)
       THEN [out |-> stopped("raise"), st |-> after]
       ELSE IF t.scaler.kind # "fitted" \/ t.model.kind # "fitted"
       THEN \* NotFittedError of scaler.transform or predict_proba
            [out |-> stopped("raise"), st |-> after]
       ELSE [out |-> stopped("proba"), st |-> after]

PredictOutcomeRetrains(medication_id, scheduled_time, m, s, a, r) ==
    LET ForMed(h) == h.medication_id = medication_id
    IN PredictOn(SelectSeq(get_dose_history(PREDICT_DAYS), ForMed), scheduled_time,
                 m, s, a, TrainOutcome(get_dose_history(TRAIN_DAYS), m, s, a, r))

\* predict_miss_probability(medication_id, scheduled_time) run with the
\* predictor fields m, s and the file a, up to the call of predict_proba; r is
\* the number of a training run started inline.  out.ret is "ok" (out is the
\* payload returned), "raise", or "proba": predict_proba is reached and the
\* payload is Assessment(p, out.training, out.count) for the p it returns
PredictOutcome(medication_id, scheduled_time, m, s, a, r) ==
    LET ForMed(h) == h.medication_id = medication_id
    IN PredictOn(SelectSeq(get_dose_history(PREDICT_DAYS), ForMed), scheduled_time,
                 m, s, a,
                 IF m = NoModel
                 THEN TrainOutcome(get_dose_history(TRAIN_DAYS), m, s, a, r)
                 ELSE [ret |-> "none", model |-> m, scaler |-> s, artifact |-> a,
                       fitted |-> FALSE, examples |-> 0])

\* the payload of the outcome out once predict_proba has returned p
Payload(out, p) ==
    IF out.ret = "proba" THEN Assessment(p, out.training, out.count) ELSE out

\* the loop of get_predictions_for_today over schedule from entry i on, with
\* the predictor fields m, s, the file a and r training runs so far; an
\* exception ends the loop
RECURSIVE BatchOutcome(_, _, _, _, _, _, _)
BatchStepForgets(schedule, i, o, r, log) ==
    IF o.out.ret = "raise"
    THEN [ret |-> "raise", model |-> o.st.model, scaler |-> o.st.scaler,
          artifact |-> o.st.artifact, run |-> IF o.st.fitted THEN r + 1 ELSE r,
          log |-> Append(log, [medication_id |-> schedule[i].medication_id,
                               prediction |-> o.out, used |-> o.st.model])]
    ELSE BatchOutcome(schedule, i + 1, model, scaler, artifact,
                      IF o.st.fitted THEN r + 1 ELSE r,
                      Append(log, [medication_id |-> schedule[i].medication_id,
                                   prediction |-> o.out, used |-> o.st.model]))

\* one turn of the loop: o is what predict_miss_probability does for entry i
BatchStep(schedule, i, o, r, log) ==
    IF o.out.ret = "raise"
    THEN [ret |-> "raise", model |-> o.st.model, scaler |-> o.st.scaler,
          artifact |-> o.st.artifact, run |-> IF o.st.fitted THEN r + 1 ELSE r,
          log |-> Append(log, [medication_id |-> schedule[i].medication_id,
                               prediction |-> o.out, used |-> o.st.model])]
    ELSE BatchOutcome(schedule, i + 1, o.st.model, o.st.scaler, o.st.artifact,
                      IF o.st.fitted THEN r + 1 ELSE r,
                      Append(log, [medication_id |-> schedule[i].medication_id,
                                   prediction |-> o.out, used |-> o.st.model]))

BatchOutcome(schedule, i, m, s, a, r, log) ==
    IF i > Len(schedule)
    THEN [ret |-> "ok", log |-> log, model |-> m, scaler |-> s, artifact |-> a, run |-> r]
    ELSE BatchStep(schedule, i,
                   PredictOutcome(schedule[i].medication_id, schedule[i].scheduled_time,
                                  m, s, a, r + 1),
                   r, log)

\* what the file at MODEL_PATH holds besides a complete pickle: nothing yet
\* (open(..., 'wb') has truncated it), the first bytes of the pickle of
\* training run r, bytes that are no pickle, and a pickled dict without the
\* key 'scaler' or without the key 'model'
Bytes(kind, r) == [present |-> TRUE, model |-> [kind |-> kind, run |-> r],
                   scaler |-> [kind |-> kind, run |-> r]]
Truncated == Bytes("empty", 0)
Partial(r) == Bytes("partial", r)
Garbage == Bytes("garbage", 0)
AbsentKey == [kind |-> "absent", run |-> 0]
WithoutScaler(m) == Pickled(m, AbsentKey)
WithoutModel(s) == Pickled(AbsentKey, s)

\* pickle.load(f) raises on the file a
Unpicklable(a) == a.present /\ a.model.kind \in {"empty", "partial", "garbage"}

load_modelKeepsClassifier(a) ==
    IF ~a.present \/ Unpicklable(a) \/ a.model = AbsentKey
    THEN [model |-> NoModel, scaler |-> FreshScaler]
    ELSE IF a.scaler = AbsentKey
    THEN [model |-> a.model, scaler |-> FreshScaler]
    ELSE [model |-> a.model, scaler |-> a.scaler]

\* load_model() on the file a, from the fields __init__ sets: an exception of
\* open, pickle.load or of a subscript is caught and self.model set to None
load_model(a) ==
    IF ~a.present \/ Unpicklable(a) \/ a.model = AbsentKey
    THEN [model |-> NoModel, scaler |-> FreshScaler]
    ELSE IF a.scaler = AbsentKey
    THEN [model |-> NoModel, scaler |-> FreshScaler]
    ELSE [model |-> a.model, scaler |-> a.scaler]

----------------------------------------------------------------------------
(* ml_module/analyzer.py                                                   *)

\* round(x, 2) of the percentage num / den * 100, in 1/100 of a percent
RoundRate(num, den) ==
    LET q == (num * 10000) \div den
        rem2 == 2 * ((num * 10000) % den)
    IN IF rem2 > den \/ (rem2 = den /\ q % 2 = 1) THEN q + 1 ELSE q

\* analyze_adherence_rate from line 17 on, for the history read
AdherenceOf(history) ==
    IF history = <<>>
    THEN [adherence_rate |-> 0, total_doses |-> 0, taken |-> 0, missed |-> 0,
          delayed |-> 0]
    ELSE [adherence_rate |-> RoundRate(CountIf(history, "taken")
                                         + CountIf(history, "delayed"), Len(history)),
          total_doses |-> Len(history),
          taken |-> CountIf(history, "taken"),
          missed |-> CountIf(history, "missed"),
          delayed |-> CountIf(history, "delayed")]

\* analyze_adherence_rate(days)
analyze_adherence_rate(days) == AdherenceOf(get_dose_history(days))

\* the patterns detect_patterns finds in the non-empty history, in the order
\* it appends them; recent and older are the 7-day and 30-day adherence rates
PatternsOf(history, recent, older) ==
    LET IsMissed(h) == h.status = "missed"
        misses == SelectSeq(history, IsMissed)
        Weekend(h) == (h.scheduled_time.val \div DayMinutes) % 7 >= 5
        weekend_misses == Len(SelectSeq(misses, Weekend))
        weekday_misses == Len(misses) - weekend_misses
        IsDelayed(h) == h.status = "delayed"
        delays == SelectSeq(history, IsDelayed)
        HourOf(h) == (h.scheduled_time.val % DayMinutes) \div 60
        SlotMisses(hr) == Cardinality({i \in 1..Len(misses) : HourOf(misses[i]) = hr})
    IN (IF 2 * weekend_misses > 3 * weekday_misses THEN <<"weekend_misses">> ELSE <<>>)
       \o (IF Len(delays) > MANY_DELAYS /\ SumDelays(delays) > LONG_DELAY * Len(delays)
           THEN <<"consistent_delays">> ELSE <<>>)
       \o (IF \E i \in 1..Len(misses) : SlotMisses(HourOf(misses[i])) >= SLOT_MISSES
           THEN <<"time_slot_issue">> ELSE <<>>)
       \o (IF recent > older + TREND_POINTS THEN <<"improving">>
           ELSE IF recent < older - TREND_POINTS THEN <<"declining">>
           ELSE <<>>)

\* detect_patterns(medication_id); medication_id 0 stands for None.  The
\* strptime of a missed row's scheduled_time may raise.
detect_patterns(medication_id) ==
    LET ForMed(h) == medication_id # 0 => h.medication_id = medication_id
        history == SelectSeq(get_dose_history(PATTERN_DAYS), ForMed)
    IN IF history = <<>> THEN [ret |-> "ok", patterns |-> <<>>]
       ELSE IF \E i \in 1..Len(history) :
                 history[i].status = "missed" /\ ~Parseable(history[i].scheduled_time)
       THEN [ret |-> "raise", patterns |-> <<>>]
       ELSE [ret |-> "ok",
             patterns |-> PatternsOf(history,
                 analyze_adherence_rate(TREND_RECENT_DAYS).adherence_rate,
                 analyze_adherence_rate(TREND_OLDER_DAYS).adherence_rate)]

----------------------------------------------------------------------------
(* The stored history a process starts with.  The database file outlives   *)
(* the process, so __init__ finds the rows earlier runs recorded.  A       *)
(* stored history is the result of record_dose calls, one per day (or per  *)
(* spacing days) at 08:00, the most recent one yesterday.                  *)

Morning(d) == Canonical(d, 8 * 60)

\* the record_dose call behind letter c: taken on time, taken 90 minutes
\* late, missed
StoredRow(id, med, c, day) ==
    DoseRow(id, med, Morning(day),
            IF c = "T" THEN Morning(day)
            ELSE IF c = "D" THEN Shift(Morning(day), 90)
            ELSE NoTime,
            IF c = "M" THEN "missed" ELSE "taken")

\* meds and letters list the calls most recent first; rowids follow the calls
Stored(meds, letters, spacing) ==
    LET n == Len(letters)
    IN [k \in 1..n |->
          StoredRow(k, meds[n - k + 1], letters[n - k + 1],
                    Today - (n - k + 1) * spacing)]

Only(med, n) == [i \in 1..n |-> med]
\* 13 doses, every third one of medication 2 (4 doses), the others of medication 1
Split13 == [i \in 1..13 |-> IF i % 3 = 2 THEN 2 ELSE 1]

Scenario7 == <<"T", "T", "T", "M", "T", "T", "T">>
Mixed12 == <<"T", "D", "T", "M", "T", "T", "M", "T", "T", "D", "T", "T">>
Mixed13 == Mixed12 \o <<"T">>
Taken13 == [i \in 1..13 |-> "T"]

StoredHistories ==
    { <<>>,
      Stored(Only(1, 7), Scenario7, 1),
      Stored(Only(1, 12), Mixed12, 1),
      Stored(Only(1, 13), Mixed13, 1),
      Stored(Only(1, 13), Taken13, 1),
      Stored(Split13, Mixed13, 1),
      Stored(Only(1, 13), Mixed13, 4) }

StoredMedications ==
    { [id |-> 1, name |-> "Aspirin", dosage |-> "100mg"],
      [id |-> 2, name |-> "Ibuprofen", dosage |-> "100mg"] }

StoredSchedules == ScheduleRows(1, <<T0800>>) \o ScheduleRows(2, <<T2000>>)

\* the file an earlier process saved after a successful training (run 0)
StoredArtifacts == {NoArtifact, Pickled(FittedModel(0), FittedScaler(0))}

\* files at MODEL_PATH that are no complete artifact
DamagedArtifacts ==
    {Garbage, WithoutScaler(FittedModel(0)), WithoutModel(FittedScaler(0))}

\* the processes that share MODEL_PATH in ArtifactSpec
Workers == {1, 2}

\* a process that is not running
Down == [pc |-> "down", model |-> NoModel, scaler |-> FreshScaler,
         observed |-> NoArtifact]

----------------------------------------------------------------------------
(* What a request returned.                                                *)

NoPrediction ==
    [ret |-> "none", probability |-> 0, raw |-> 0, risk_level |-> "none",
     message |-> "none", training |-> "none", count |-> 0]

NoAnalysis ==
    [adherence_rate |-> 0, total_doses |-> 0, taken |-> 0, missed |-> 0, delayed |-> 0]

\* the request op with its arguments (medication_id, time, actual, status, days)
\* and what it returned; ret is "ok", "rejected" (a missing field), "404",
\* "True" or "False" (train_model), or "raise" (an exception left the call)
Returned(op, ret) ==
    [op |-> op, ret |-> ret, medication_id |-> 0, time |-> NoTime,
     actual |-> NoTime, status |-> "", days |-> 0,
     prediction |-> NoPrediction, log |-> <<>>, analysis |-> NoAnalysis,
     patterns |-> <<>>]

Init ==
    /\ medications = StoredMedications
    /\ nextMedId = 3
    /\ schedules = StoredSchedules
    /\ dose_history \in StoredHistories
    /\ nextDoseId = Len(dose_history) + 1
    /\ artifact \in StoredArtifacts
    /\ model = load_model(artifact).model
    /\ scaler = load_model(artifact).scaler
    /\ trainRuns = 0
    /\ newDoses = 0
    /\ last = Returned("start", "ok")
    /\ workers = [p \in Workers |-> Down]

----------------------------------------------------------------------------
(* Request handlers (app.py), each with the store or predictor call it     *)
(* makes.                                                                  *)

\* POST /api/medications
AddMedication(name, dosage, schedule_times) ==
    /\ nextMedId - 3 < MaxNewMeds
    /\ IF schedule_times = <<>>
       THEN /\ last' = Returned("add_medication", "rejected")
            /\ UNCHANGED <<medications, nextMedId, schedules>>
       ELSE /\ medications' = medications \cup
                 {[id |-> nextMedId, name |-> name, dosage |-> dosage]}
            /\ nextMedId' = nextMedId + 1
            /\ schedules' = schedules \o ScheduleRows(nextMedId, schedule_times)
            /\ last' = [Returned("add_medication", "ok") EXCEPT !.medication_id = nextMedId]
    /\ UNCHANGED <<dose_history, nextDoseId, model, scaler, artifact, trainRuns, newDoses, workers>>

\* PUT /api/medications/<id>
UpdateMedication(medication_id, name, dosage, schedule_times) ==
    /\ IF schedule_times = <<>>
       THEN /\ last' = [Returned("update_medication", "rejected")
                          EXCEPT !.medication_id = medication_id]
            /\ UNCHANGED <<medications, schedules>>
       ELSE IF medication_id \notin MedIds(medications)
       THEN /\ last' = [Returned("update_medication", "404")
                          EXCEPT !.medication_id = medication_id]
            /\ UNCHANGED <<medications, schedules>>
       ELSE LET Others(r) == r.medication_id # medication_id
            IN /\ medications' =
                     {m \in medications : m.id # medication_id} \cup
                     {[id |-> medication_id, name |-> name, dosage |-> dosage]}
               /\ schedules' = SelectSeq(schedules, Others)
                                 \o ScheduleRows(medication_id, schedule_times)
               /\ last' = [Returned("update_medication", "ok")
                             EXCEPT !.medication_id = medication_id]
    /\ UNCHANGED <<nextMedId, dose_history, nextDoseId, model, scaler, artifact,
                   trainRuns, newDoses, workers>>

DeleteMedicationAllHistory(medication_id) ==
    /\ IF medication_id \notin MedIds(medications)
       THEN /\ last' = [Returned("delete_medication", "404")
                          EXCEPT !.medication_id = medication_id]
            /\ UNCHANGED <<medications, schedules, dose_history>>
       ELSE LET Others(r) == r.medication_id # medication_id
            IN /\ schedules' = SelectSeq(schedules, Others)
               /\ dose_history' = <<>>
               /\ medications' = {m \in medications : m.id # medication_id}
               /\ last' = [Returned("delete_medication", "ok")
                             EXCEPT !.medication_id = medication_id]
    /\ UNCHANGED <<nextMedId, nextDoseId, model, scaler, artifact, trainRuns, newDoses, workers>>

\* DELETE /api/medications/<id>
DeleteMedication(medication_id) ==
    /\ IF medication_id \notin MedIds(medications)
       THEN /\ last' = [Returned("delete_medication", "404")
                          EXCEPT !.medication_id = medication_id]
            /\ UNCHANGED <<medications, schedules, dose_history>>
       ELSE LET Others(r) == r.medication_id # medication_id
            IN /\ schedules' = SelectSeq(schedules, Others)
               /\ dose_history' = SelectSeq(dose_history, Others)
               /\ medications' = {m \in medications : m.id # medication_id}
               /\ last' = [Returned("delete_medication", "ok")
                             EXCEPT !.medication_id = medication_id]
    /\ UNCHANGED <<nextMedId, nextDoseId, model, scaler, artifact, trainRuns, newDoses, workers>>

\* POST /api/record-dose; status "" stands for a missing field
RecordDose(medication_id, scheduled_time, actual_time, status) ==
    /\ newDoses < MaxNewDoses
    /\ newDoses' = newDoses + 1
    /\ IF status = "" \/ scheduled_time = NoTime
       THEN /\ last' = [Returned("record_dose", "rejected")
                          EXCEPT !.medication_id = medication_id]
            /\ UNCHANGED <<dose_history, nextDoseId>>
       ELSE /\ dose_history' = Append(dose_history,
                 DoseRow(nextDoseId, medication_id, scheduled_time, actual_time, status))
            /\ nextDoseId' = nextDoseId + 1
            /\ last' = [Returned("record_dose", "ok")
                          EXCEPT !.medication_id = medication_id,
                                 !.time = scheduled_time,
                                 !.actual = actual_time,
                                 !.status = status]
    /\ UNCHANGED <<medications, nextMedId, schedules, model, scaler, artifact, trainRuns, workers>>

\* the effect of train_model() with outcome t on the predictor and the file
TrainEffect(t) ==
    /\ t.fitted => trainRuns < MaxTrainRuns
    /\ model' = t.model
    /\ scaler' = t.scaler
    /\ artifact' = t.artifact
    /\ trainRuns' = IF t.fitted THEN trainRuns + 1 ELSE trainRuns
    /\ last' = Returned("train_model", t.ret)

\* POST /api/ai/train-model
TrainModel ==
    /\ TrainEffect(TrainOutcome(get_dose_history(TRAIN_DAYS), model, scaler, artifact,
                                trainRuns + 1))
    /\ UNCHANGED <<medications, nextMedId, schedules, dose_history, nextDoseId,
                   newDoses, workers>>

\* the effect of predict_miss_probability with outcome o, and its response
PredictEffect(medication_id, scheduled_time, o) ==
    /\ o.st.fitted => trainRuns < MaxTrainRuns
    /\ model' = o.st.model
    /\ scaler' = o.st.scaler
    /\ artifact' = o.st.artifact
    /\ trainRuns' = IF o.st.fitted THEN trainRuns + 1 ELSE trainRuns
    /\ \E p \in IF o.out.ret = "proba" THEN ProbSet ELSE {0} :
         last' = [Returned("predict_dose", Payload(o.out, p).ret)
                    EXCEPT !.medication_id = medication_id,
                           !.time = scheduled_time,
                           !.prediction = Payload(o.out, p)]

\* POST /api/ai/predict-dose
PredictSingleDose(medication_id, scheduled_time) ==
    IF scheduled_time = NoTime
    THEN /\ last' = [Returned("predict_dose", "rejected")
                       EXCEPT !.medication_id = medication_id]
         /\ UNCHANGED <<medications, nextMedId, schedules, dose_history,
                        nextDoseId, model, scaler, artifact, trainRuns, newDoses, workers>>
    ELSE /\ PredictEffect(medication_id, scheduled_time,
                          PredictOutcome(medication_id, scheduled_time, model, scaler,
                                         artifact, trainRuns + 1))
         /\ UNCHANGED <<medications, nextMedId, schedules, dose_history,
                        nextDoseId, newDoses, workers>>

\* the effect of get_predictions_for_today with outcome b, and its response;
\* the classifier's answer p is drawn once per request
BatchEffect(b) ==
    /\ b.run <= MaxTrainRuns
    /\ model' = b.model
    /\ scaler' = b.scaler
    /\ artifact' = b.artifact
    /\ trainRuns' = b.run
    /\ \E p \in IF \E i \in 1..Len(b.log) : b.log[i].prediction.ret = "proba"
                THEN ProbSet ELSE {0} :
         last' = [Returned("predictions", b.ret)
                    EXCEPT !.log = [i \in 1..Len(b.log) |->
                        [b.log[i] EXCEPT !.prediction =
                            Payload(b.log[i].prediction, p)]]]

\* GET /api/ai/predictions
GetPredictions ==
    /\ BatchEffect(BatchOutcome(get_todays_schedule, 1, model, scaler, artifact,
                                trainRuns, <<>>))
    /\ UNCHANGED <<medications, nextMedId, schedules, dose_history,
                   nextDoseId, newDoses, workers>>

\* GET /api/ai/analyze-adherence?days=
AnalyzeAdherence(days) ==
    /\ last' = [Returned("analyze_adherence", "ok")
                  EXCEPT !.days = days, !.analysis = analyze_adherence_rate(days)]
    /\ UNCHANGED <<medications, nextMedId, schedules, dose_history, nextDoseId,
                   model, scaler, artifact, trainRuns, newDoses, workers>>

\* GET /api/ai/detect-patterns?medication_id=
DetectPatterns(medication_id) ==
    /\ last' = [Returned("detect_patterns", detect_patterns(medication_id).ret)
                  EXCEPT !.medication_id = medication_id,
                         !.patterns = detect_patterns(medication_id).patterns]
    /\ UNCHANGED <<medications, nextMedId, schedules, dose_history, nextDoseId,
                   model, scaler, artifact, trainRuns, newDoses, workers>>

----------------------------------------------------------------------------
(* Processes sharing the file at config.MODEL_PATH.  Each process has its  *)
(* own predictor; pc is its place: "down" (not running), "up" (between     *)
(* requests), "fitted" (train_model before line 125), "open" (save_model   *)
(* after open(..., 'wb')), "writing" (part of the pickle is in the file).  *)

\* a process starts: __init__ and load_model() on the file as it is now
Start(p) ==
    /\ workers[p].pc = "down"
    /\ workers' = [workers EXCEPT ![p] =
          [pc |-> "up", model |-> load_model(artifact).model,
           scaler |-> load_model(artifact).scaler, observed |-> artifact]]
    /\ UNCHANGED <<medications, nextMedId, schedules, dose_history, nextDoseId,
                   model, scaler, artifact, trainRuns, newDoses, last>>

\* a process ends
Stop(p) ==
    /\ workers[p].pc = "up"
    /\ workers' = [workers EXCEPT ![p] = Down]
    /\ UNCHANGED <<medications, nextMedId, schedules, dose_history, nextDoseId,
                   model, scaler, artifact, trainRuns, newDoses, last>>

\* train_model lines 113-122 of a training that succeeds
Fit(p) ==
    /\ workers[p].pc = "up"
    /\ trainRuns < MaxTrainRuns
    /\ trainRuns' = trainRuns + 1
    /\ workers' = [workers EXCEPT ![p].pc = "fitted",
                                  ![p].model = FittedModel(trainRuns + 1),
                                  ![p].scaler = FittedScaler(trainRuns + 1)]
    /\ UNCHANGED <<medications, nextMedId, schedules, dose_history, nextDoseId,
                   model, scaler, artifact, newDoses, last>>

\* save_model line 35: open(config.MODEL_PATH, 'wb') truncates the file
SaveOpen(p) ==
    /\ workers[p].pc = "fitted"
    /\ artifact' = Truncated
    /\ workers' = [workers EXCEPT ![p].pc = "open"]
    /\ UNCHANGED <<medications, nextMedId, schedules, dose_history, nextDoseId,
                   model, scaler, trainRuns, newDoses, last>>

\* save_model line 36: pickle.dump has written a part of the stream
SaveWrite(p) ==
    /\ workers[p].pc = "open"
    /\ artifact' = Partial(workers[p].model.run)
    /\ workers' = [workers EXCEPT ![p].pc = "writing"]
    /\ UNCHANGED <<medications, nextMedId, schedules, dose_history, nextDoseId,
                   model, scaler, trainRuns, newDoses, last>>

\* save_model lines 36-39: the rest of the stream is written and the file closed
SaveClose(p) ==
    /\ workers[p].pc \in {"open", "writing"}
    /\ artifact' = Pickled(workers[p].model, workers[p].scaler)
    /\ workers' = [workers EXCEPT ![p].pc = "up"]
    /\ UNCHANGED <<medications, nextMedId, schedules, dose_history, nextDoseId,
                   model, scaler, trainRuns, newDoses, last>>

----------------------------------------------------------------------------
(* The requests of a run.                                                  *)

TodayMorning == Morning(Today)

\* actual_time values sent with a dose scheduled at s
ActualTimes(s) ==
    IF Parseable(s)
    THEN {NoTime, BadTime} \cup {Shift(s, off) : off \in {0 - 30, 0, 60, 61, 90}}
    ELSE {NoTime, TodayMorning}

\* the record_dose requests of Spec: (medication_id, scheduled_time, status),
\* sent without an actual_time; yesterday's 08:00 is also the scheduled_time
\* of the latest stored dose
SpecDoseRequests ==
    {<<1, TodayMorning, "missed">>, <<2, Morning(Today - 1), "taken">>,
     <<1, BadTime, "taken">>, <<2, BadTime, "missed">>}

Next ==
    \/ \E d \in Dosages : AddMedication("Paracetamol", d, <<T0800>>)
    \/ \E d \in Dosages : UpdateMedication(1, "Aspirin", d, <<T2000>>)
    \/ \E m \in {2} : DeleteMedication(m)
    \/ \E q \in SpecDoseRequests : RecordDose(q[1], q[2], NoTime, q[3])
    \/ TrainModel
    \/ \E m \in 1..2, s \in {NoTime, TodayMorning, BadTime} : PredictSingleDose(m, s)
    \/ GetPredictions

\* the record_dose requests of StoreSpec: (scheduled_time, actual_time, status);
\* status "skipped" is a status outside the three the code names
DoseRequests ==
    {<<TodayMorning, a, "taken">> : a \in ActualTimes(TodayMorning)}
    \cup {<<Unpadded, Shift(Unpadded, 90), "taken">>,
          <<Morning(Today - 40), NoTime, "taken">>,
          <<BadTime, TodayMorning, "taken">>,
          <<TodayMorning, NoTime, "delayed">>,
          <<TodayMorning, Shift(TodayMorning, 90), "delayed">>,
          <<TodayMorning, Shift(TodayMorning, 90), "missed">>,
          <<TodayMorning, NoTime, "skipped">>,
          <<TodayMorning, NoTime, "">>,
          <<TodayMorning, NoTime, "missed">>,
          <<BadTime, NoTime, "missed">>}

StoreInit ==
    /\ Init
    /\ artifact = NoArtifact
    /\ dose_history \in {<<>>, Stored(Only(1, 7), Scenario7, 1),
                         Stored(Only(1, 13), Taken13, 1),
                         Stored(Split13, Mixed13, 1)}

StoreNext ==
    \/ \E d \in Dosages, ts \in {<<>>, <<BadTod>>} : AddMedication("Paracetamol", d, ts)
    \/ \E m \in {2, 3} : DeleteMedication(m)
    \/ \E q \in DoseRequests : RecordDose(1, q[1], q[2], q[3])
    \/ \E st \in {"taken", "missed"} : RecordDose(2, TodayMorning, NoTime, st)
    \/ \E days \in {RECENT_DAYS, PREDICT_DAYS} : AnalyzeAdherence(days)
    \/ \E m \in 0..3 : DetectPatterns(m)

\* no process runs yet; the file is absent, complete or damaged
ArtifactInit ==
    /\ medications = StoredMedications
    /\ nextMedId = 3
    /\ schedules = StoredSchedules
    /\ dose_history = <<>>
    /\ nextDoseId = 1
    /\ artifact \in StoredArtifacts \cup DamagedArtifacts
    /\ model = NoModel
    /\ scaler = FreshScaler
    /\ trainRuns = 0
    /\ newDoses = 0
    /\ last = Returned("start", "ok")
    /\ workers = [p \in Workers |-> Down]

ArtifactNext ==
    \E p \in Workers :
        \/ Start(p)
        \/ Stop(p)
        \/ Fit(p)
        \/ SaveOpen(p)
        \/ SaveWrite(p)
        \/ SaveClose(p)

Spec == Init /\ [][Next]_vars

ArtifactSpec == ArtifactInit /\ [][ArtifactNext]_vars

StoreSpec == StoreInit /\ [][StoreNext]_vars

----------------------------------------------------------------------------
(* Properties                                                              *)

\* the number of rows get_dose_history(days) returns for medication_id
\* (for every medication when medication_id = 0)
HistoryLen(medication_id, days) ==
    Cardinality({i \in 1..Len(dose_history) :
        /\ dose_history[i].medication_id \in MedIds(medications)
        /\ dose_history[i].scheduled_time.key >= StartDateKey(days)
        /\ medication_id # 0 => dose_history[i].medication_id = medication_id})

Assessed == {"low", "medium", "high"}

\* C1: a predict-dose request for a medication with fewer than 5 events in
\* the 30-day history returns probability 0.0 and risk_level unknown, and
\* leaves the model, the scaler and the persisted artifact as they were
\* (no training is attempted), whether or not a model is loaded.
C1_FewEventsUnknown ==
    [][(/\ last'.op = "predict_dose"
        /\ last'.ret # "rejected"
        /\ HistoryLen(last'.medication_id, 30) < 5)
       => (/\ last'.ret = "ok"
           /\ last'.prediction.probability = 0
           /\ last'.prediction.risk_level = "unknown"
           /\ last'.prediction.training = "none"
           /\ model' = model
           /\ scaler' = scaler
           /\ artifact' = artifact)]_vars

\* C1 witness: unknown was returned for a medication with fewer than 5 events
\* while no model is loaded and a training on the stored history would succeed.
C1_Witness ==
    /\ last.op = "predict_dose"
    /\ last.prediction.risk_level = "unknown"
    /\ HistoryLen(last.medication_id, 30) < 5
    /\ model = NoModel
    /\ HistoryLen(0, 60) >= 13
    /\ TrainOutcome(get_dose_history(TRAIN_DAYS), model, scaler, artifact, 1).ret = "True"

\* C2: train_model with fewer than 10 records in the 60-day history returns
\* False and leaves the persisted artifact, the model and the scaler untouched.
C2_TooFewRecords ==
    [][(/\ last'.op = "train_model"
        /\ HistoryLen(0, 60) < 10)
       => (/\ last'.ret = "False"
           /\ model' = model
           /\ scaler' = scaler
           /\ artifact' = artifact)]_vars

\* C2 witness: a training on 1 to 9 records has failed and the artifact an
\* earlier process saved is still there.
C2_Witness ==
    /\ last.op = "train_model"
    /\ last.ret = "False"
    /\ HistoryLen(0, 60) \in 1..9
    /\ artifact = Pickled(FittedModel(0), FittedScaler(0))
    /\ model = FittedModel(0)

\* C3 (as claimed): no training or prediction request ends with an exception.
C3_NeverRaises ==
    last.op \in {"train_model", "predict_dose", "predictions"} => last.ret # "raise"

\* C4 (as claimed): a predict-dose request made while no model is loaded, for
\* a medication with at least 5 events, attempts a training; if the training
\* succeeds the model is loaded and low, medium or high is returned; if it
\* fails unknown with probability 0.0 is returned and no model is loaded.
C4_InlineTraining ==
    [][(/\ last'.op = "predict_dose"
        /\ last'.ret # "rejected"
        /\ model = NoModel
        /\ HistoryLen(last'.medication_id, 30) >= 5)
       => (/\ last'.prediction.training \in {"True", "False", "raise"}
           /\ last'.prediction.training = "True"
                => /\ model' # NoModel
                   /\ last'.prediction.risk_level \in Assessed
           /\ last'.prediction.training # "True"
                => /\ last'.ret = "ok"
                   /\ last'.prediction.risk_level = "unknown"
                   /\ last'.prediction.probability = 0
                   /\ model' = NoModel)]_vars

\* C5: in the response of get_predictions_for_today, once an entry has
\* trained the model, every later entry runs no training and uses that
\* model, which is also the model the predictor holds afterwards; at most
\* one entry of a batch trains successfully.
C5_BatchTrainsOnce ==
    last.op = "predictions" =>
      /\ \A i, j \in 1..Len(last.log) :
           (i < j /\ last.log[i].prediction.training = "True")
             => /\ last.log[i].used.kind = "fitted"
                /\ last.log[j].prediction.training = "none"
                /\ last.log[j].used = last.log[i].used
                /\ model = last.log[i].used
      /\ Cardinality({i \in 1..Len(last.log) :
                        last.log[i].prediction.training = "True"}) <= 1

\* C5 witness: an entry trained the model and a later entry of another
\* medication was assessed with it.
C5_Witness ==
    /\ last.op = "predictions"
    /\ \E i, j \in 1..Len(last.log) :
         /\ i < j
         /\ last.log[i].prediction.training = "True"
         /\ last.log[j].medication_id # last.log[i].medication_id
         /\ last.log[j].prediction.risk_level \in Assessed
         /\ last.log[j].used = last.log[i].used

\* C6: a dose recorded as 'taken' with parseable scheduled and actual times
\* is stored with delay_minutes = actual - scheduled, and with status
\* 'delayed' if and only if delay_minutes > 60, otherwise 'taken'.
C6_DelayClassification ==
    (/\ last.op = "record_dose"
     /\ last.ret = "ok"
     /\ last.status = "taken"
     /\ last.actual # NoTime
     /\ last.time.val # NoParse
     /\ last.actual.val # NoParse)
    => LET row == dose_history[Len(dose_history)]
       IN /\ row.id = nextDoseId - 1
          /\ row.scheduled_time = last.time
          /\ row.actual_time = last.actual
          /\ row.delay_minutes = last.actual.val - last.time.val
          /\ row.status = "delayed" <=> row.delay_minutes > 60
          /\ row.status \in {"taken", "delayed"}

\* C6 witness: scheduled today 08:00, taken 09:30: stored with delay 90, 'delayed'.
C6_Witness ==
    /\ last.op = "record_dose"
    /\ last.status = "taken"
    /\ last.time = Canonical(Today, 8 * 60)
    /\ last.actual = Canonical(Today, 9 * 60 + 30)
    /\ dose_history[Len(dose_history)].delay_minutes = 90
    /\ dose_history[Len(dose_history)].status = "delayed"

\* the rows analyze_adherence_rate(days) reads
Window(days) ==
    {i \in 1..Len(dose_history) :
        /\ dose_history[i].medication_id \in MedIds(medications)
        /\ dose_history[i].scheduled_time.key >= StartDateKey(days)}

\* C7 (as claimed): when the history read holds at least one taken or delayed
\* event and no missed event, analyze_adherence_rate returns 100.00.
C7_AllAdherent ==
    (/\ last.op = "analyze_adherence"
     /\ \E i \in Window(last.days) : dose_history[i].status \in {"taken", "delayed"}
     /\ \A i \in Window(last.days) : dose_history[i].status # "missed")
    => last.analysis.adherence_rate = 10000

\* the history predict_miss_probability passes to extract_features
HistoryFor(medication_id) ==
    LET ForMed(h) == h.medication_id = medication_id
    IN SelectSeq(get_dose_history(PREDICT_DAYS), ForMed)

\* the streak of history as C8 states it: the taken or delayed events in
\* front of the first missed one, in descending order of scheduled_time
ClaimedStreak(history) ==
    LET sorted == SortDesc(history)
        missedAt == {i \in 1..Len(sorted) : sorted[i].status = "missed"}
    IN Cardinality({i \in 1..Len(sorted) :
          /\ sorted[i].status \in {"taken", "delayed"}
          /\ \A j \in missedAt : i < j})

\* the three statements of C8 for one history
StreakAsClaimed(history) ==
    LET sorted == SortDesc(history)
        streak == extract_features(history, Canonical(Today, 8 * 60)).streak
    IN /\ streak = ClaimedStreak(history)
       /\ (history # <<>> /\ sorted[1].status = "missed") => streak = 0
       /\ (/\ history # <<>>
           /\ sorted[1].status \in {"taken", "delayed"}
           /\ \A i \in 2..Len(sorted) :
                sorted[i].scheduled_time.key < sorted[1].scheduled_time.key)
          => streak >= extract_features(Tail(sorted), Canonical(Today, 8 * 60)).streak

\* C8 (as claimed): for the history of every medication, current_streak is the
\* number of taken or delayed events in front of the first missed one, is 0
\* when the latest event is missed, and does not decrease when a later taken
\* or delayed event is put in front.
C8_Streak ==
    \A m \in 1..3 :
      (\A i \in 1..Len(HistoryFor(m)) : HistoryFor(m)[i].scheduled_time.val # NoParse)
        => StreakAsClaimed(HistoryFor(m))

\* the assessments the last request returned
Assessments ==
    {last.prediction} \cup {last.log[i].prediction : i \in 1..Len(last.log)}

\* C9 (as amended): the risk level is high if the probability the classifier
\* returned is above 0.6, else medium if it is above 0.3, else low (exactly
\* 0.6 is medium, exactly 0.3 is low); the returned probability is that
\* probability rounded to 3 decimals, so it satisfies the thresholds only up
\* to rounding: at least 0.6 for high, from 0.3 to 0.6 for medium, at most
\* 0.3 for low.
C9_RiskThresholds ==
    \A a \in Assessments :
      a.risk_level \in Assessed =>
        /\ a.risk_level = "high" <=> a.raw > 6000
        /\ a.risk_level = "medium" <=> (a.raw > 3000 /\ a.raw <= 6000)
        /\ a.risk_level = "low" <=> a.raw <= 3000
        /\ a.probability % 10 = 0
        /\ a.probability - a.raw \in (0 - 5)..5
        /\ a.risk_level = "high" => a.probability >= 6000
        /\ a.risk_level = "medium" => (a.probability >= 3000 /\ a.probability <= 6000)
        /\ a.risk_level = "low" => a.probability <= 3000

\* C9 witness: the classifier returned 0.6004; high is returned with probability 0.6.
C9_Witness ==
    /\ last.op = "predict_dose"
    /\ last.prediction.raw = 6004
    /\ last.prediction.risk_level = "high"
    /\ last.prediction.probability = 6000

\* C9 (as claimed): the returned probability and the returned risk level
\* satisfy the thresholds: high if and only if probability > 0.6, medium if
\* and only if 0.3 < probability <= 0.6, low if and only if probability <= 0.3.
C9_ReturnedPairThresholds ==
    \A a \in Assessments :
      a.risk_level \in Assessed =>
        /\ a.risk_level = "high" <=> a.probability > 6000
        /\ a.risk_level = "medium" <=> (a.probability > 3000 /\ a.probability <= 6000)
        /\ a.risk_level = "low" <=> a.probability <= 3000

\* C10: every step keeps every recorded dose event as it is, except that a
\* successful delete_medication(m) removes the dose events and the schedules
\* of medication m, all of them and no others.
C10_DoseEventsKept ==
    [][LET deleted == IF last'.op = "delete_medication" /\ last'.ret = "ok"
                      THEN {last'.medication_id} ELSE {}
           Kept(r) == r.medication_id \notin deleted
       IN /\ \A i \in 1..Len(dose_history) :
               Kept(dose_history[i])
                 => \E j \in 1..Len(dose_history') : dose_history'[j] = dose_history[i]
          /\ \A j \in 1..Len(dose_history') : Kept(dose_history'[j])
          /\ deleted # {} =>
               /\ Len(dose_history') =
                    Cardinality({i \in 1..Len(dose_history) : Kept(dose_history[i])})
               /\ schedules' = SelectSeq(schedules, Kept)]_vars

\* C10 witness: a medication was deleted, its dose events are gone and the
\* dose events of another medication are still stored.
C10_Witness ==
    /\ last.op = "delete_medication"
    /\ last.ret = "ok"
    /\ dose_history # <<>>
    /\ Len(dose_history) < nextDoseId - 1
    /\ \A i \in 1..Len(dose_history) : dose_history[i].medication_id # last.medication_id

\* C11 (as claimed): the file at MODEL_PATH never holds an empty or partly
\* written artifact, and no load_model of a process observes one.
C11_AtomicReplace ==
    /\ artifact.model.kind \notin {"empty", "partial"}
    /\ \A p \in Workers : workers[p].observed.model.kind \notin {"empty", "partial"}

\* C13: a process that starts on a corrupt or incomplete artifact comes up
\* with model None; a process that comes up with a classifier has the
\* classifier and the scaler of the artifact it read.
C13_CorruptLoadsUnloaded ==
    [][\A p \in Workers :
         (workers[p].pc = "down" /\ workers'[p].pc # "down") =>
            /\ workers'[p].pc = "up"
            /\ (Unpicklable(artifact) \/ AbsentKey \in {artifact.model, artifact.scaler})
                 => workers'[p].model = NoModel
            /\ workers'[p].model # NoModel =>
                 /\ artifact.present
                 /\ workers'[p].model = artifact.model
                 /\ workers'[p].scaler = artifact.scaler
                 /\ artifact.scaler.kind = "fitted"]_vars

C13_Witness ==
    \E p \in Workers :
        /\ workers[p].pc = "up"
        /\ workers[p].observed = WithoutScaler(FittedModel(0))
        /\ workers[p].model = NoModel

\* C12 (as claimed): for every medication_id, detect_patterns reports
\* improving exactly when the 7-day rate of all medications is more than 10
\* points above their 30-day rate, declining exactly when it is more than 10
\* points below, and never both.
C12_TrendIgnoresFilter ==
    last.op = "detect_patterns" =>
        LET recent == analyze_adherence_rate(TREND_RECENT_DAYS).adherence_rate
            older == analyze_adherence_rate(TREND_OLDER_DAYS).adherence_rate
        IN /\ "improving" \in Range(last.patterns) <=> recent > older + TREND_POINTS
           /\ "declining" \in Range(last.patterns) <=> recent < older - TREND_POINTS
           /\ ~({"improving", "declining"} \subseteq Range(last.patterns))

\* C14 (as claimed): a train-model request on a history of n events builds
\* an example for exactly the events with at least 3 events behind them, n - 3
\* examples in all, and fails with insufficient data unless there are at
\* least 10 of them: with 10, 11 or 12 records it returns False and leaves
\* the model as it was.
C14_TrainingSetAssembly ==
    [][last'.op = "train_model" =>
         LET history == get_dose_history(TRAIN_DAYS)
             n == Len(history)
             t == TrainOutcome(history, model, scaler, artifact, trainRuns + 1)
         IN /\ ExampleIndexes(history) = {i \in 1..n : n - i >= MIN_PAST_HISTORY}
            /\ n >= TRAINING_DATA_MIN_RECORDS => t.examples = n - MIN_PAST_HISTORY
            /\ (n >= TRAINING_DATA_MIN_RECORDS
                  /\ n - MIN_PAST_HISTORY < TRAINING_DATA_MIN_RECORDS)
                 => /\ last'.ret = "False"
                    /\ UNCHANGED <<model, scaler, artifact>>
            /\ n - MIN_PAST_HISTORY < TRAINING_DATA_MIN_RECORDS => last'.ret = "False"]_vars

\* C15 (as claimed): for every event a train-model request uses as a training
\* target, every event of the past context passed to extract_features has a
\* scheduled_time strictly earlier than the target's.
C15_PastStrictlyOlder ==
    [][last'.op = "train_model" =>
         LET history == get_dose_history(TRAIN_DAYS)
         IN Len(history) >= TRAINING_DATA_MIN_RECORDS =>
              \A i \in ExampleIndexes(history) :
                \A j \in (i + 1)..Len(history) :
                  (Parseable(history[i].scheduled_time)
                     /\ Parseable(history[j].scheduled_time))
                  => history[j].scheduled_time.val < history[i].scheduled_time.val]_vars

\* C16 (as claimed): whenever the predictor holds a classifier, the
\* classifier and the scaler are the fitted pair of one training run (or of
\* the artifact loaded), and that pair is what the artifact holds.
C16_ReplacedWholesale ==
    model # NoModel =>
        /\ model.kind = "fitted"
        /\ scaler.kind = "fitted"
        /\ model.run = scaler.run
        /\ artifact = Pickled(model, scaler)

\* C17: a predictor that holds a model never goes back to model None; a
\* predict-dose or predictions request served while a model is held leaves
\* model, scaler and artifact as they are; only a train-model request
\* changes them once a model is held.
C17_LoadedModelStays ==
    [][model # NoModel =>
         /\ model' # NoModel
         /\ last'.op \in {"predict_dose", "predictions"}
              => UNCHANGED <<model, scaler, artifact>>
         /\ <<model, scaler, artifact>>' # <<model, scaler, artifact>>
              => last'.op = "train_model"]_vars

C17_Witness ==
    /\ last.op = "predict_dose"
    /\ last.prediction.risk_level \in Assessed
    /\ last.prediction.training = "none"
    /\ newDoses > 0
    /\ model = FittedModel(0)
    /\ artifact = Pickled(FittedModel(0), FittedScaler(0))

\* C18 (as claimed): every stored event with status delayed has
\* delay_minutes above the delay tolerance, and every stored event with
\* status missed has delay_minutes 0.
C18_DelayMinutesMatchStatus ==
    \A i \in 1..Len(dose_history) :
        /\ dose_history[i].status = "delayed"
             => dose_history[i].delay_minutes > DELAY_TOLERANCE
        /\ dose_history[i].status = "missed" => dose_history[i].delay_minutes = 0

====
